---- MODULE Spec2Model ----
(***************************************************************************)
(* Model of youtube_transcript_downloader.py: filename sanitization,       *)
(* the single-video fetch pipeline, the file-driven batch, the channel     *)
(* enumerator, the duplicate detector and the menu loop that runs them.    *)
(*                                                                         *)
(* Text is a sequence of one-character strings.  Python's None is the      *)
(* empty tuple and a present optional value x is <<x>>.                    *)
(***************************************************************************)
EXTENDS Integers, Sequences, FiniteSets, TLC

VARIABLES
    \* sanitize_filename: the name given, the successive results, and whether
    \* it is being applied
    name, sanitized, spc,
    \* fetch_single_video: the call (url, metadata, the providers' answers),
    \* what it did, and whether it has returned
    call, effects, fpc,
    \* process_file_with_video_urls: the input file, the URL list built from
    \* it, the position in that list, what each processed item did, and the
    \* messages of the batch itself
    input, urls, bpos, results, bprinted, bpc,
    \* find_duplicate_transcripts: the directory as os.walk visits it, the
    \* position of the walk, the digest-to-path mapping, the pairs found and
    \* the messages printed
    directory, dpos, hashes, duplicates, dprinted, dpc,
    \* fetch_channel_videos: the call (the URL entered, what the provider
    \* answers about the channel, which request raises, what the disk does),
    \* the provider's playlist pages and the videos its metadata call
    \* returns, the loop's token and rows, the log of the iterations of the
    \* loop that ran to their end, the messages printed
    channel, pages, available, next_page_token, videos, page_log, chprinted, chpc,
    \* the files the operations leave behind: the transcript records by
    \* path, duplicates.txt, the channel's table
    records, report, export,
    \* main_menu: where the loop is, and how many choices were entered
    mpc, choices

sanVars == <<name, sanitized, spc>>
fsvVars == <<call, effects, fpc>>
batchVars == <<input, urls, bpos, results, bprinted, bpc>>
dupVars == <<directory, dpos, hashes, duplicates, dprinted, dpc>>
chanVars == <<channel, pages, available, next_page_token, videos, page_log, chprinted, chpc>>
diskVars == <<records, report, export>>
menuVars == <<mpc, choices>>
vars == <<sanVars, fsvVars, batchVars, dupVars, chanVars, diskVars, menuVars>>

\* what an operation leaves alone: the state of the other operations, the
\* files it does not write, the menu
notSan == <<fsvVars, batchVars, dupVars, chanVars, diskVars, menuVars>>
notFsv == <<sanVars, batchVars, dupVars, chanVars, report, export, menuVars>>
notBatch == <<sanVars, fsvVars, dupVars, chanVars, report, export, menuVars>>
notDup == <<sanVars, fsvVars, batchVars, chanVars, records, export, menuVars>>
notChan == <<sanVars, fsvVars, batchVars, dupVars, records, report, menuVars>>

(***************************************************************************)
(* Bounds of the model                                                     *)
(***************************************************************************)
MaxTail == 3

MaxLines == 2

MaxFiles == 4

MaxContents == 2

MaxPages == 3

MaxChoices == 2

(***************************************************************************)
(* Configuration (DEFAULT_CONFIG)                                          *)
(***************************************************************************)
TRANSCRIPT_FILENAME_LENGTH == 36

IdLength == 11

None == <<>>

(***************************************************************************)
(* Character classes.  The patterns are str patterns, so \w and \s are the *)
(* Unicode classes; a TLA+ string holds the characters up to U+00FF, and   *)
(* the classes are exact on those.                                         *)
(***************************************************************************)
\* 0-9A-Za-z
Alnum ==
    {"0","1","2","3","4","5","6","7","8","9",
     "A","B","C","D","E","F","G","H","I","J","K","L","M","N","O","P","Q","R",
     "S","T","U","V","W","X","Y","Z",
     "a","b","c","d","e","f","g","h","i","j","k","l","m","n","o","p","q","r",
     "s","t","u","v","w","x","y","z"}

\* the characters of U+0080..U+00FF that str.isalnum() accepts
Latin1Alnum ==
    {"ª","²","³","µ","¹","º","¼","½","¾","À","Á","Â","Ã","Ä","Å","Æ",
     "Ç","È","É","Ê","Ë","Ì","Í","Î","Ï","Ð","Ñ","Ò","Ó","Ô","Õ","Ö",
     "Ø","Ù","Ú","Û","Ü","Ý","Þ","ß","à","á","â","ã","ä","å","æ","ç",
     "è","é","ê","ë","ì","í","î","ï","ð","ñ","ò","ó","ô","õ","ö","ø",
     "ù","ú","û","ü","ý","þ","ÿ"}

\* \w : every alphanumeric character and the underscore
WordChars == Alnum \cup Latin1Alnum \cup {"_"}

\* \s, and the characters str.strip() removes: tab, line feed, vertical tab,
\* form feed, carriage return, U+001C..U+001F, space, U+0085, U+00A0
Whitespace ==
    {" ", "\t", "\n", "\f", "\r", "", "", "", "", "", "", " "}

\* [0-9A-Za-z_-]
IdChars == Alnum \cup {"_", "-"}

(***************************************************************************)
(* Generic string helpers (Python str methods)                             *)
(***************************************************************************)
Min(a, b) == IF a <= b THEN a ELSE b

\* s[:n]
Take(s, n) == SubSeq(s, 1, Min(n, Len(s)))

\* s[n:]
Drop(s, n) == SubSeq(s, n + 1, Len(s))

\* s.startswith(p)
StartsWith(s, p) == Len(p) <= Len(s) /\ SubSeq(s, 1, Len(p)) = p

RECURSIVE LStrip(_)
LStrip(s) ==
    IF s # <<>> /\ Head(s) \in Whitespace THEN LStrip(Tail(s)) ELSE s

RECURSIVE RStrip(_)
RStrip(s) ==
    IF s # <<>> /\ s[Len(s)] \in Whitespace
    THEN RStrip(SubSeq(s, 1, Len(s) - 1))
    ELSE s

\* s.strip()
Strip(s) == RStrip(LStrip(s))

(***************************************************************************)
(* sanitize_filename                                                       *)
(***************************************************************************)
Untitled == <<"u","n","t","i","t","l","e","d">>

\* the character class kept by the pattern [^\w\-\s]
SanitizeKeep == WordChars \cup {"-"} \cup Whitespace

\* re.sub(pattern, "", name)
SanitizeSub(s) == SelectSeq(s, LAMBDA c : c \in SanitizeKeep)

sanitize_filename(s, max_length) ==
    LET sanitized_filename == Take(Strip(SanitizeSub(s)), max_length)
    IN  IF sanitized_filename # <<>> THEN sanitized_filename ELSE Untitled

(***************************************************************************)
(* Identifier extraction: re.search(youtube_video_id, video_url)           *)
(***************************************************************************)
\* [0-9A-Za-z_-]{11} matches at position i
IdRun(s, i) ==
    /\ i + IdLength - 1 <= Len(s)
    /\ \A k \in i..(i + IdLength - 1) : s[k] \in IdChars

\* (?:v=|\/)([0-9A-Za-z_-]{11}) matches at position i
MatchesAt(s, i) ==
    \/ s[i] = "v" /\ i + 1 <= Len(s) /\ s[i + 1] = "=" /\ IdRun(s, i + 2)
    \/ s[i] = "/" /\ IdRun(s, i + 1)

\* group(1) of the match at position i
GroupAt(s, i) ==
    IF s[i] = "v" THEN SubSeq(s, i + 2, i + IdLength + 1)
    ELSE SubSeq(s, i + 1, i + IdLength)

\* match.group(1) of the leftmost match, or None
ExtractVideoId(video_url) ==
    LET hits == {i \in 1..Len(video_url) : MatchesAt(video_url, i)}
    IN  IF hits = {} THEN None
        ELSE LET first == CHOOSE i \in hits : \A j \in hits : i <= j
             IN  <<GroupAt(video_url, first)>>

(***************************************************************************)
(* save_transcript's own derivation of the identifier:                     *)
(* video_url.split("v=")[-1].split("&")[0]                                 *)
(***************************************************************************)
\* s.split("v=")[-1]
AfterLastVEq(s) ==
    LET at == {i \in 1..(Len(s) - 1) : s[i] = "v" /\ s[i + 1] = "="}
    IN  IF at = {} THEN s
        ELSE LET last == CHOOSE i \in at : \A j \in at : j <= i
             IN  Drop(s, last + 1)

\* s.split("&")[0]
BeforeFirstAmp(s) ==
    LET at == {i \in 1..Len(s) : s[i] = "&"}
    IN  IF at = {} THEN s
        ELSE LET first == CHOOSE i \in at : \A j \in at : i <= j
             IN  Take(s, first - 1)

SaveLookupKey(video_url) == BeforeFirstAmp(AfterLastVEq(video_url))


(***************************************************************************)
(* Python values held in a metadata dict                                   *)
(***************************************************************************)
PyNone == [kind |-> "none", val |-> <<>>]
PyStr(s) == [kind |-> "str", val |-> s]
PyList(l) == [kind |-> "list", val |-> l]

\* value not in [None, "", []]
NotBlank(v) == v.kind # "none" /\ v.val # <<>>

\* {} ; a metadata argument of None is the same to "if metadata:"
EmptyDict == [k \in {} |-> PyNone]

\* bool(d) of a dict
Truthy(d) == DOMAIN d # {}

\* d.get(key, default)
Get(d, key, default) == IF key \in DOMAIN d THEN d[key] ELSE default

Unknown == PyStr(<<"U","n","k","n","o","w","n">>)

required_keys == {"title", "channel_title", "publish_date", "duration", "tags"}

(***************************************************************************)
(* fetch_video_metadata: the provider knows the videos of env.catalog; any *)
(* other identifier (no item, or a transport error) gives {}.              *)
(***************************************************************************)
ApiItem ==
    [title |-> PyStr(<<"A","P","I"," ","t","i","t","l","e","!">>),
     channel_title |-> PyStr(<<"A","P","I"," ","c","h","a","n">>),
     publish_date |-> PyStr(<<"2","0","2","4">>),
     duration |-> PyStr(<<"P","T","1","M">>),
     tags |-> PyList(<<"api-tag">>)]

fetch_video_metadata(video_id, catalog) ==
    IF video_id \in catalog THEN ApiItem ELSE EmptyDict

(***************************************************************************)
(* sanitize_text                                                           *)
(***************************************************************************)
\* the class [\\^$.|?*+(){}[\]]
RegexSpecialChars ==
    {"\\", "^", "$", ".", "|", "?", "*", "+", "(", ")", "{", "}", "[", "]"}

\* re.sub(r"\s+", " ", text): each run of whitespace becomes one space
RECURSIVE CollapseSpaces(_, _)
CollapseSpaces(text, in_run) ==
    IF text = <<>> THEN <<>>
    ELSE IF Head(text) \in Whitespace
         THEN (IF in_run THEN <<>> ELSE <<" ">>)
              \o CollapseSpaces(Tail(text), TRUE)
         ELSE <<Head(text)>> \o CollapseSpaces(Tail(text), FALSE)

\* the second substitution removes the characters above U+FFFF, of which a
\* text of this model has none
sanitize_text(text) ==
    IF text = <<>> THEN <<>>
    ELSE Strip(CollapseSpaces(
             SelectSeq(text, LAMBDA c : c \notin RegexSpecialChars), FALSE))

(***************************************************************************)
(* parse_time_format.  The start of a transcript entry is an int, a float  *)
(* (whole seconds and thousandths, not negative) or, from a provider that  *)
(* answers out of form, a text.                                            *)
(***************************************************************************)
StartInt(n) == [kind |-> "int", whole |-> n, frac |-> 0, text |-> <<>>]
StartFloat(n, f) == [kind |-> "float", whole |-> n, frac |-> f, text |-> <<>>]
StartText(t) == [kind |-> "str", whole |-> 0, frac |-> 0, text |-> t]

DecimalDigits == <<"0","1","2","3","4","5","6","7","8","9">>

\* str(n) of a natural number
RECURSIVE Digits(_)
Digits(n) ==
    IF n < 10 THEN <<DecimalDigits[n + 1]>>
    ELSE Digits(n \div 10) \o <<DecimalDigits[(n % 10) + 1]>>

\* f"{n:02}"
Format02(n) ==
    IF n < 0 THEN <<"-">> \o Digits(0 - n)
    ELSE IF n < 10 THEN <<"0">> \o Digits(n)
    ELSE Digits(n)

parse_time_format(seconds) ==
    IF seconds.kind \notin {"int", "float"}
    THEN [raised |-> TRUE, val |-> <<>>]
    ELSE LET total_seconds == seconds.whole
             hours == total_seconds \div 3600
             remainder == total_seconds % 3600
             minutes == remainder \div 60
             secs == remainder % 60
         IN  [raised |-> FALSE,
              val |-> IF hours # 0
                      THEN Format02(hours) \o <<":">> \o Format02(minutes)
                           \o <<":">> \o Format02(secs)
                      ELSE Format02(minutes) \o <<":">> \o Format02(secs)]

(***************************************************************************)
(* save_transcript: sanitizes channel and title into the record's path,    *)
(* makes the directory, resolves duration and tags again, converts the     *)
(* entries, writes the record.  env.disk says whether the directory can be *)
(* made and the file opened.                                               *)
(***************************************************************************)
\* lines 445-451: the converted entries, or the raise of the first entry
\* whose start is no number
RECURSIVE ConvertEntries(_, _)
ConvertEntries(transcript, done) ==
    IF transcript = <<>> THEN [raised |-> FALSE, val |-> done]
    ELSE LET entry == Head(transcript)
             at == parse_time_format(entry.start)
         IN  IF at.raised THEN [raised |-> TRUE, val |-> <<>>]
             ELSE ConvertEntries(Tail(transcript),
                      Append(done, [text |-> sanitize_text(entry.text),
                                    at |-> at.val]))

save_transcript(video_url, transcript, channel_name, video_title, publish_date, env) ==
    LET sanitized_title ==
            sanitize_filename(video_title.val, TRANSCRIPT_FILENAME_LENGTH)
        channel_dir ==
            sanitize_filename(channel_name.val, TRANSCRIPT_FILENAME_LENGTH)
        key == SaveLookupKey(video_url)
        metadata == fetch_video_metadata(key, env.catalog)
        converted == ConvertEntries(transcript, <<>>)
        invoked == [args |-> [video_url |-> video_url,
                              channel_name |-> channel_name,
                              video_title |-> video_title,
                              publish_date |-> publish_date],
                    filename |-> <<channel_dir, sanitized_title>>]
        transcript_data ==
            [metadata |-> [video_url |-> video_url,
                           channel_name |-> channel_name,
                           video_title |-> video_title,
                           publish_date |-> publish_date,
                           duration |-> Get(metadata, "duration", Unknown),
                           tags |-> Get(metadata, "tags", PyList(<<>>))],
             transcript |-> converted.val]
    IN  IF env.disk = "mkdir_fails"
        THEN [args |-> invoked.args, filename |-> invoked.filename,
              looked_up |-> None, raised |-> TRUE, written |-> None]
        ELSE IF converted.raised \/ env.disk = "open_fails"
        THEN [args |-> invoked.args, filename |-> invoked.filename,
              looked_up |-> <<key>>, raised |-> TRUE, written |-> None]
        ELSE [args |-> invoked.args, filename |-> invoked.filename,
              looked_up |-> <<key>>, raised |-> FALSE,
              written |-> <<transcript_data>>]

\* the files under transcripts/ after one save_transcript call
WriteRecord(disk, saved) ==
    IF saved.written = None THEN disk
    ELSE [f \in DOMAIN disk \cup {saved.filename} |->
            IF f = saved.filename THEN saved.written[1] ELSE disk[f]]

RECURSIVE WriteRecords(_, _)
WriteRecords(disk, saves) ==
    IF saves = <<>> THEN disk
    ELSE WriteRecords(WriteRecord(disk, Head(saves)), Tail(saves))

(***************************************************************************)
(* fetch_single_video                                                      *)
(***************************************************************************)
MsgInvalidUrl == "Invalid URL. Must contain a valid YouTube video ID."
MsgUsingProvided == "Using provided metadata for video ID"
MsgIncomplete == "Incomplete or invalid metadata for video ID. Fetching from API."
MsgNoMetadata == "Failed to fetch metadata for video ID. Skipping."
MsgSaved == "Transcript saved successfully."
MsgDisabled == "Transcripts are disabled for this video."
MsgNotFound == "No transcript found for this video."
MsgError == "An error occurred"

\* a validation that forgets the tags attribute
is_metadata_valid_without_tags(metadata) ==
    \A key \in required_keys \ {"tags"} :
        key \in DOMAIN metadata /\ NotBlank(metadata[key])

\* all(key in metadata and metadata[key] not in [None, "", []] ...)
is_metadata_valid(metadata) ==
    \A key \in required_keys : key \in DOMAIN metadata /\ NotBlank(metadata[key])

\* What one call did: the messages printed, the metadata provider queries
\* (who asked, for which identifier), the transcript provider queries, the
\* save_transcript invocations, and the metadata in hand at the end.
Effects(printed, md_calls, tr_calls, saves, metadata) ==
    [printed |-> printed, md_calls |-> md_calls, tr_calls |-> tr_calls,
     saves |-> saves, metadata |-> metadata]

MdCall(by, id) == [by |-> by, id |-> id]

\* lines 176-194: the metadata in hand after validation, with what was
\* printed and queried to get it
ResolveMetadata(video_id, metadata, env) ==
    IF Truthy(metadata)
    THEN IF is_metadata_valid(metadata)
         THEN [metadata |-> metadata, printed |-> <<MsgUsingProvided>>,
               md_calls |-> <<>>]
         ELSE [metadata |-> fetch_video_metadata(video_id, env.catalog),
               printed |-> <<MsgIncomplete>>,
               md_calls |-> <<MdCall("fetch_single_video", video_id)>>]
    ELSE [metadata |-> fetch_video_metadata(video_id, env.catalog),
          printed |-> <<>>,
          md_calls |-> <<MdCall("fetch_single_video", video_id)>>]

\* lines 205-212: the save_transcript call and what follows it; a raise
\* inside it is caught by the handler of lines 218-219
SaveStage(video_url, video_id, metadata, env) ==
    LET saved == save_transcript(video_url, env.entries,
                     Get(metadata, "channel_title", Unknown),
                     Get(metadata, "title", Unknown),
                     Get(metadata, "publish_date", Unknown),
                     env)
    IN  [printed |-> <<IF saved.raised THEN MsgError ELSE MsgSaved>>,
         md_calls |-> IF saved.looked_up = None THEN <<>>
                      ELSE <<MdCall("save_transcript", saved.looked_up[1])>>,
         tr_calls |-> <<video_id>>,
         saves |-> <<saved>>]

\* a transcript stage that saves whatever the provider answered
TranscriptStage_always_saves(video_url, video_id, metadata, env) ==
    SaveStage(video_url, video_id, metadata, env)

\* lines 201-219: one get_transcript call; save_transcript only after it
\* returned; each failure signal has its own handler
TranscriptStage(video_url, video_id, metadata, env) ==
    IF env.transcript = "ok"
    THEN SaveStage(video_url, video_id, metadata, env)
    ELSE [printed |-> <<CASE env.transcript = "disabled" -> MsgDisabled
                          [] env.transcript = "not_found" -> MsgNotFound
                          [] OTHER -> MsgError>>,
          md_calls |-> <<>>,
          tr_calls |-> <<video_id>>,
          saves |-> <<>>]

fetch_single_video(video_url, metadata, env) ==
    LET match == ExtractVideoId(video_url)
    IN  IF match = None
        THEN Effects(<<MsgInvalidUrl>>, <<>>, <<>>, <<>>, metadata)
        ELSE LET video_id == match[1]
                 resolved == ResolveMetadata(video_id, metadata, env)
             IN  IF ~Truthy(resolved.metadata)
                 THEN Effects(resolved.printed \o <<MsgNoMetadata>>,
                              resolved.md_calls, <<>>, <<>>, resolved.metadata)
                 ELSE LET t == TranscriptStage(video_url, video_id,
                                               resolved.metadata, env)
                      IN  Effects(resolved.printed \o t.printed,
                                  resolved.md_calls \o t.md_calls,
                                  t.tr_calls, t.saves, resolved.metadata)

(***************************************************************************)
(* The state of an operation that is not running, of a disk with no file   *)
(* of the program yet, and of a run of one operation                       *)
(***************************************************************************)
NoEffects == Effects(<<>>, <<>>, <<>>, <<>>, EmptyDict)

IdleCall ==
    [video_url |-> <<>>, metadata |-> EmptyDict,
     env |-> [catalog |-> {}, transcript |-> "ok", entries |-> <<>>,
              disk |-> "ok"]]

IdleInput == [exists |-> FALSE, is_csv |-> FALSE, rows |-> <<>>]

IdleDirectory == [exists |-> FALSE, files |-> <<>>]

SanIdle ==
    /\ name = <<>>
    /\ sanitized = <<>>
    /\ spc = "idle"

FsvIdle ==
    /\ call = IdleCall
    /\ effects = NoEffects
    /\ fpc = "idle"

BatchIdle ==
    /\ input = IdleInput
    /\ urls = <<>>
    /\ bpos = 0
    /\ results = <<>>
    /\ bprinted = <<>>
    /\ bpc = "idle"

DupIdle ==
    /\ directory = IdleDirectory
    /\ dpos = 0
    /\ hashes = EmptyDict
    /\ duplicates = <<>>
    /\ dprinted = <<>>
    /\ dpc = "idle"

IdleChannel ==
    [url |-> <<>>, search |-> None, known |-> {}, fails_at |-> 0, fails_in |-> "nothing", disk |-> "ok"]

ChanIdle ==
    /\ channel = IdleChannel
    /\ pages = <<>>
    /\ available = {}
    /\ next_page_token = None
    /\ videos = <<>>
    /\ page_log = <<>>
    /\ chprinted = <<>>
    /\ chpc = "idle"

NoRecords == [f \in {} |-> <<>>]

\* a duplicates.txt that an earlier run of the program wrote, or none
EarlierReports == {None, <<<<<<2, 1>>>>>>}

\* the first choice of a session was entered and its operation runs
FirstOperation ==
    /\ mpc = "operation"
    /\ choices = 1

(***************************************************************************)
(* Specification SpecFetch: one call of fetch_single_video, for every URL  *)
(* shape, every completeness of the caller's metadata and every answer of  *)
(* the two providers and of the disk.                                      *)
(***************************************************************************)
WatchPrefix == <<"h","t","t","p","s",":","/","/","w","w","w",".","y","o","u","t","u","b","e",".","c","o","m","/","w","a","t","c","h","?","v","=">>
SampleId == <<"d","Q","w","4","w","9","W","g","X","c","Q">>

FetchUrls ==
    LET ShortHost == <<"h","t","t","p","s",":","/","/","y","o","u","t","u",".","b","e","/">>
        EmbedHost == <<"h","t","t","p","s",":","/","/","w","w","w",".","y","o","u","t","u","b","e",".","c","o","m","/","e","m","b","e","d","/">>
        ShortToken == <<"s","h","o","r","t">>
    IN
        {WatchPrefix \o SampleId,
         WatchPrefix \o SampleId \o <<"&","t","=","1","0">>,
         WatchPrefix \o SampleId \o <<"&","r","v","=","1">>,
         ShortHost \o SampleId,
         ShortHost \o SampleId \o <<"?","t","=","1","0">>,
         EmbedHost \o SampleId,
         WatchPrefix \o WatchPrefix \o SampleId,
         WatchPrefix \o ShortToken,
         WatchPrefix,
         ShortToken}

CallerMetadata ==
    [title |-> PyStr(<<"M","y"," ","t","i","t","l","e","?">>),
     channel_title |-> PyStr(<<"M","y"," ","c","h","a","n">>),
     publish_date |-> PyStr(<<"2","0","2","3">>),
     duration |-> PyStr(<<"P","T","2","M">>),
     tags |-> PyList(<<"my-tag">>)]

\* the caller's dict with the keys of `bad` spoiled in the way `how`
Spoil(bad, how) ==
    LET keep == IF how = "absent" THEN required_keys \ bad ELSE required_keys
    IN  [k \in keep |->
            IF k \notin bad THEN CallerMetadata[k]
            ELSE IF how = "none" THEN PyNone
            ELSE IF CallerMetadata[k].kind = "list" THEN PyList(<<>>)
            ELSE PyStr(<<>>)]

SuppliedMetadata ==
    {Spoil(bad, how) : bad \in SUBSET required_keys,
                       how \in {"absent", "none", "empty"}}

\* how get_transcript ends: it returns the entries, or raises one of its two
\* signals or anything else
TranscriptOutcomes == {"ok", "disabled", "not_found", "error"}

\* a transcript whose starts are numbers, and one with a start that is not
TimedEntries ==
    <<[text |-> <<"H","i"," "," ","(","a",")","\n">>, start |-> StartFloat(5, 500)],
      [text |-> <<>>, start |-> StartInt(3725)]>>

UntimedEntries ==
    <<[text |-> <<"H","i">>, start |-> StartInt(75)],
      [text |-> <<"y","o">>, start |-> StartText(<<"1",".","0">>)]>>

TranscriptLists == {<<>>, TimedEntries, UntimedEntries}

\* os.makedirs and open succeed, or one of them raises
DiskAnswers == {"ok", "mkdir_fails", "open_fails"}

\* the answers one call can meet (entries and disk matter only once
\* get_transcript returned)
Envs ==
    {e \in [catalog : SUBSET {SampleId}, transcript : TranscriptOutcomes,
            entries : TranscriptLists, disk : DiskAnswers] :
        e.transcript # "ok" => e.entries = <<>> /\ e.disk = "ok"}

FsvInit ==
    /\ call \in [video_url : FetchUrls, metadata : SuppliedMetadata, env : Envs]
    /\ effects = NoEffects
    /\ fpc = "called"
    /\ SanIdle
    /\ BatchIdle
    /\ DupIdle
    /\ ChanIdle
    /\ records = NoRecords
    /\ report = None
    /\ export = None
    /\ FirstOperation

FetchSingleVideo ==
    /\ fpc = "called"
    /\ effects' = fetch_single_video(call.video_url, call.metadata, call.env)
    /\ records' = WriteRecords(records, effects'.saves)
    /\ fpc' = "returned"
    /\ UNCHANGED <<call, notFsv>>

FsvNext == FetchSingleVideo

SpecFetch == FsvInit /\ [][FsvNext]_vars

\* the identifier Identifier Extraction returned for the call's URL
CallVideoId == ExtractVideoId(call.video_url)[1]

\* the metadata provider queries fetch_single_video made itself
OwnMdCalls ==
    SelectSeq(effects.md_calls, LAMBDA c : c.by = "fetch_single_video")

\* C7: save_transcript is invoked only when identifier extraction succeeded,
\* the metadata in hand is non-empty and the transcript fetch returned; on the
\* disabled signal nothing is saved, the transcript provider was asked once
\* at most, and the message is the disabled one, not the not-found one.
C7_SaveOnlyAfterFetch ==
    fpc = "returned" =>
        /\ Len(effects.saves) <= 1
        /\ Len(effects.tr_calls) <= 1
        /\ effects.saves # <<>> =>
              /\ ExtractVideoId(call.video_url) # None
              /\ Truthy(effects.metadata)
              /\ effects.tr_calls = <<CallVideoId>>
              /\ call.env.transcript = "ok"
        /\ DOMAIN records # {} => effects.saves # <<>>
        /\ call.env.transcript = "disabled" =>
              /\ effects.saves = <<>>
              /\ records = NoRecords
              /\ \A i \in DOMAIN effects.printed :
                    effects.printed[i] \notin {MsgNotFound, MsgSaved}
              /\ effects.tr_calls # <<>> =>
                    effects.printed[Len(effects.printed)] = MsgDisabled
        /\ call.env.transcript = "not_found" /\ effects.tr_calls # <<>> =>
              effects.printed[Len(effects.printed)] = MsgNotFound
        /\ MsgDisabled # MsgNotFound

\* the disabled signal was raised to a call that got as far as the fetch
C7_Witness ==
    /\ fpc = "returned"
    /\ call.env.transcript = "disabled"
    /\ effects.tr_calls = <<SampleId>>
    /\ effects.saves = <<>>

\* the caller's metadata has all five attributes with non-empty values
CallerMetadataComplete ==
    \A key \in required_keys :
        /\ key \in DOMAIN call.metadata
        /\ call.metadata[key] \notin {PyNone, PyStr(<<>>), PyList(<<>>)}

\* C8: caller-supplied metadata is used as it is, with no provider call by
\* fetch_single_video, exactly when it has all five attributes non-empty;
\* otherwise it is discarded for one fresh resolution by the extracted
\* identifier, and an empty resolution skips the item before any transcript
\* fetch.
C8_MetadataValidation ==
    fpc = "returned" /\ ExtractVideoId(call.video_url) # None =>
        /\ CallerMetadataComplete =>
              /\ OwnMdCalls = <<>>
              /\ effects.metadata = call.metadata
              /\ \A i \in DOMAIN effects.saves :
                    effects.saves[i].args.video_title = call.metadata["title"]
        /\ ~CallerMetadataComplete =>
              /\ OwnMdCalls = <<MdCall("fetch_single_video", CallVideoId)>>
              /\ effects.metadata =
                    fetch_video_metadata(CallVideoId, call.env.catalog)
              /\ CallVideoId \notin call.env.catalog =>
                    /\ effects.tr_calls = <<>>
                    /\ effects.saves = <<>>
                    /\ effects.printed[Len(effects.printed)] = MsgNoMetadata

\* metadata that lacks only tags was replaced by a fresh resolution, and the
\* record was written with it
C8_Witness ==
    /\ fpc = "returned"
    /\ DOMAIN call.metadata = required_keys \ {"tags"}
    /\ OwnMdCalls = <<MdCall("fetch_single_video", SampleId)>>
    /\ effects.metadata = ApiItem
    /\ effects.saves # <<>>
    /\ DOMAIN records # {}

\* C10: the write-time metadata resolution inside save_transcript queries the
\* provider with the identifier that Identifier Extraction returned for the
\* URL, for every accepted URL shape.
C10_SaveQueriesExtractedId ==
    fpc = "returned" =>
        \A i \in DOMAIN effects.md_calls :
            effects.md_calls[i].by = "save_transcript" =>
                effects.md_calls[i].id = CallVideoId

(***************************************************************************)
(* process_file_with_video_urls                                            *)
(*                                                                         *)
(* A text file is its sequence of lines; a CSV file is the sequence of     *)
(* rows csv.reader yields, each a sequence of fields (a blank line of the  *)
(* file is the row with no field).                                         *)
(***************************************************************************)
HttpsScheme == <<"h","t","t","p","s",":","/","/">>

MsgFileNotFound == "File not found. Please try again."
MsgFileError == "An error occurred while processing the file"

\* lines 378-381: next(reader) skips the header and raises on an empty file;
\* row[0] raises on a row with no field, leaving the URLs built so far
RECURSIVE CsvUrls(_, _)
CsvUrls(rows, built) ==
    IF rows = <<>> THEN [urls |-> built, raised |-> FALSE]
    ELSE IF Head(rows) = <<>> THEN [urls |-> built, raised |-> TRUE]
    ELSE CsvUrls(Tail(rows),
                 Append(built, WatchPrefix \o Strip(Head(rows)[1])))

\* lines 383-389
RECURSIVE TextUrls(_, _)
TextUrls(lines, built) ==
    IF lines = <<>> THEN [urls |-> built, raised |-> FALSE]
    ELSE LET video_id == Strip(Head(lines))
         IN  TextUrls(Tail(lines),
                      Append(built,
                             IF ~StartsWith(video_id, HttpsScheme)
                             THEN WatchPrefix \o video_id
                             ELSE video_id))

\* lines 372-389
BuildUrls(file) ==
    IF file.is_csv
    THEN IF file.rows = <<>> THEN [urls |-> <<>>, raised |-> TRUE]
         ELSE CsvUrls(Tail(file.rows), <<>>)
    ELSE TextUrls(file.rows, <<>>)

\* what the batch keeps of one fetch_single_video(url) call: its last message
\* and whether a record was written
ItemResult(url, e) ==
    [url |-> url, outcome |-> e.printed[Len(e.printed)],
     saved |-> \E i \in DOMAIN e.saves : e.saves[i].written # None]

(***************************************************************************)
(* Specification SpecBatch: one file-driven batch over every short text    *)
(* and CSV input, each item meeting any answer of the providers.           *)
(***************************************************************************)
TextLines ==
    {SampleId,
     <<" ">> \o SampleId \o <<"\n">>,
     WatchPrefix \o SampleId \o <<"\n">>,
     <<"\n">>}

CsvHeader == <<<<"V","i","d","e","o"," ","I","D">>, <<"T","i","t","l","e">>>>

CsvRows ==
    {<<SampleId>>,
     <<<<" ">> \o SampleId, <<"t">>>>,
     <<WatchPrefix \o SampleId>>,
     <<>>}

TextFiles ==
    UNION {[1..n -> TextLines] : n \in 0..MaxLines}

CsvFiles ==
    {<<>>} \cup
    {<<CsvHeader>> \o body : body \in UNION {[1..n -> CsvRows] : n \in 0..MaxLines}}

InputFiles ==
    {[exists |-> TRUE, is_csv |-> FALSE, rows |-> f] : f \in TextFiles}
    \cup {[exists |-> TRUE, is_csv |-> TRUE, rows |-> f] : f \in CsvFiles}
    \cup {[exists |-> FALSE, is_csv |-> c, rows |-> <<>>] : c \in BOOLEAN}

\* what the providers and the disk answer to the call made for one item
BatchEnvs == Envs

BatchInit ==
    /\ input \in InputFiles
    /\ urls = <<>>
    /\ bpos = 0
    /\ results = <<>>
    /\ bprinted = <<>>
    /\ bpc = "start"
    /\ SanIdle
    /\ FsvIdle
    /\ DupIdle
    /\ ChanIdle
    /\ records = NoRecords
    /\ report = None
    /\ export = None
    /\ FirstOperation

\* lines 367-370
BatchFileNotFound ==
    /\ bpc = "start"
    /\ ~input.exists
    /\ bprinted' = Append(bprinted, MsgFileNotFound)
    /\ bpc' = "done"
    /\ UNCHANGED <<input, urls, bpos, results, records, notBatch>>

\* lines 372-389, and 394-395 when reading raises
BatchRead ==
    /\ bpc = "start"
    /\ input.exists
    /\ LET built == BuildUrls(input)
       IN  /\ urls' = built.urls
           /\ IF built.raised
              THEN /\ bprinted' = Append(bprinted, MsgFileError)
                   /\ bpc' = "done"
                   /\ bpos' = bpos
              ELSE /\ bprinted' = bprinted
                   /\ bpc' = IF built.urls = <<>> THEN "done" ELSE "processing"
                   /\ bpos' = 1
    /\ UNCHANGED <<input, results, records, notBatch>>

\* lines 391-392: one iteration of the loop over urls
BatchItem ==
    /\ bpc = "processing"
    /\ \E env \in BatchEnvs :
          LET e == fetch_single_video(urls[bpos], EmptyDict, env)
          IN  /\ results' = Append(results, ItemResult(urls[bpos], e))
              /\ records' = WriteRecords(records, e.saves)
    /\ bpos' = bpos + 1
    /\ bpc' = IF bpos = Len(urls) THEN "done" ELSE "processing"
    /\ UNCHANGED <<input, urls, bprinted, notBatch>>

BatchNext == BatchFileNotFound \/ BatchRead \/ BatchItem

SpecBatch == BatchInit /\ [][BatchNext]_vars

\* the data items of the input: every line of a text file, every row after
\* the header of a CSV file
DataItems ==
    IF input.is_csv /\ input.rows # <<>> THEN Tail(input.rows) ELSE input.rows

\* the text of an item that carries the identifier or URL
ItemText(item) ==
    IF input.is_csv THEN (IF item = <<>> THEN <<>> ELSE item[1]) ELSE item

\* C1: a failure on one item (no identifier, empty metadata, a transcript
\* provider error, a malformed row) never aborts the batch: when the batch
\* ends, every item that is not itself malformed has been processed.
C1_BatchContinues ==
    bpc = "done" /\ input.exists =>
        \A i \in DOMAIN DataItems :
            (input.is_csv => DataItems[i] # <<>>) =>
                i \in DOMAIN results

\* C9: each data row or line yields exactly one URL, in input order: a full
\* URL unchanged, anything else expanded to the canonical watch URL (stated
\* for the inputs that were read without an error).
C9_OneUrlPerItem ==
    bpc \in {"processing", "done"} /\ input.exists /\ bprinted = <<>> =>
        /\ Len(urls) = Len(DataItems)
        /\ \A i \in DOMAIN urls :
              LET t == Strip(ItemText(DataItems[i]))
              IN  urls[i] = IF StartsWith(t, HttpsScheme) THEN t
                            ELSE WatchPrefix \o t

(***************************************************************************)
(* find_duplicate_transcripts and compute_sha1                             *)
(*                                                                         *)
(* A file is known by its position in the walk (its path), whether its     *)
(* name ends in .json, whether it can be read, and its content.  SHA-1 is  *)
(* taken as free of collisions: the digest of content c is <<c>>.  The     *)
(* directory is the one the user names, whatever it holds.                 *)
(***************************************************************************)
MsgNoDirectory == "Directory does not exist."
MsgSavedDuplicates == "Saved duplicate transcripts to duplicates.txt."
MsgNoDuplicates == "No duplicate transcripts found."

compute_sha1(file) ==
    IF file.readable THEN <<file.content>> ELSE None

\* a loop body that also moves the original to the latest file seen
RecordDigest_latest_original(seen, pairs, file_path, file_hash) ==
    [hashes |-> [h \in DOMAIN seen \cup {file_hash} |->
                    IF h = file_hash THEN file_path ELSE seen[h]],
     duplicates |-> IF file_hash \in DOMAIN seen
                    THEN Append(pairs, <<file_path, seen[file_hash]>>)
                    ELSE pairs]

\* lines 413-416
RecordDigest(seen, pairs, file_path, file_hash) ==
    IF file_hash \in DOMAIN seen
    THEN [hashes |-> seen,
          duplicates |-> Append(pairs, <<file_path, seen[file_hash]>>)]
    ELSE [hashes |-> [h \in DOMAIN seen \cup {file_hash} |->
                         IF h = file_hash THEN file_path ELSE seen[h]],
          duplicates |-> pairs]

(***************************************************************************)
(* Specification SpecDup: one run of find_duplicate_transcripts over every *)
(* short directory of readable, unreadable and foreign files, with or      *)
(* without a report of an earlier run on the disk.                         *)
(***************************************************************************)
DupFileKinds ==
    {[json |-> TRUE, readable |-> TRUE, content |-> c] : c \in 1..MaxContents}
    \cup {[json |-> TRUE, readable |-> FALSE, content |-> 0],
          [json |-> FALSE, readable |-> TRUE, content |-> 1]}

Directories ==
    {[exists |-> TRUE, files |-> f] :
        f \in UNION {[1..n -> DupFileKinds] : n \in 0..MaxFiles}}
    \cup {[exists |-> FALSE, files |-> <<>>]}

DupInit ==
    /\ directory \in Directories
    /\ dpos = 1
    /\ hashes = EmptyDict
    /\ duplicates = <<>>
    /\ dprinted = <<>>
    /\ dpc = "start"
    /\ SanIdle
    /\ FsvIdle
    /\ BatchIdle
    /\ ChanIdle
    /\ records = NoRecords
    /\ report \in EarlierReports
    /\ export = None
    /\ FirstOperation

\* lines 400-403
DupNoDirectory ==
    /\ dpc = "start"
    /\ ~directory.exists
    /\ dprinted' = Append(dprinted, MsgNoDirectory)
    /\ dpc' = "done"
    /\ UNCHANGED <<directory, dpos, hashes, duplicates, report>>
    /\ UNCHANGED notDup

\* lines 405-408
DupStartWalk ==
    /\ dpc = "start"
    /\ directory.exists
    /\ dpc' = "walking"
    /\ UNCHANGED <<directory, dpos, hashes, duplicates, dprinted, report>>
    /\ UNCHANGED notDup

\* lines 409-416: one file of the walk
DupVisit ==
    /\ dpc = "walking"
    /\ dpos <= Len(directory.files)
    /\ LET file == directory.files[dpos]
       IN  IF file.json
           THEN LET r == RecordDigest(hashes, duplicates, dpos,
                                      compute_sha1(file))
                IN  /\ hashes' = r.hashes
                    /\ duplicates' = r.duplicates
           ELSE UNCHANGED <<hashes, duplicates>>
    /\ dpos' = dpos + 1
    /\ UNCHANGED <<directory, dprinted, report, dpc>>
    /\ UNCHANGED notDup

\* lines 418-425: the report is written only when a pair exists; with no
\* pair the file of an earlier run stays as it is
DupReport ==
    /\ dpc = "walking"
    /\ dpos > Len(directory.files)
    /\ IF duplicates # <<>>
       THEN /\ report' = <<duplicates>>
            /\ dprinted' = Append(dprinted, MsgSavedDuplicates)
       ELSE /\ report' = report
            /\ dprinted' = Append(dprinted, MsgNoDuplicates)
    /\ dpc' = "done"
    /\ UNCHANGED <<directory, dpos, hashes, duplicates>>
    /\ UNCHANGED notDup

DupNext == DupNoDirectory \/ DupStartWalk \/ DupVisit \/ DupReport

SpecDup == DupInit /\ [][DupNext]_vars

\* the record files whose digest cannot be computed
FailingFiles ==
    {i \in DOMAIN directory.files :
        directory.files[i].json /\ ~directory.files[i].readable}

\* the record files with content c, by path
SameContent(c) ==
    {i \in DOMAIN directory.files :
        /\ directory.files[i].json
        /\ directory.files[i].readable
        /\ directory.files[i].content = c}

\* C2: a record file whose digest computation fails is skipped: after the
\* walk it is no original of the mapping and is in no pair, and every file
\* was visited.
C2_FailedDigestSkipped ==
    dpc = "done" /\ directory.exists =>
        /\ dpos = Len(directory.files) + 1
        /\ \A i \in FailingFiles :
              /\ \A h \in DOMAIN hashes : hashes[h] # i
              /\ \A j \in DOMAIN duplicates :
                    duplicates[j][1] # i /\ duplicates[j][2] # i

\* C3: each group of k files with the same content digest yields exactly
\* k-1 pairs, one per later file of the group, all naming the first file of
\* the group in walk order as the original; a file with a unique digest is
\* in no pair.
C3_PairsPerDigest ==
    dpc = "done" /\ directory.exists =>
        \A c \in 1..MaxContents :
            LET group == SameContent(c)
                about == {j \in DOMAIN duplicates :
                            duplicates[j][1] \in group
                            \/ duplicates[j][2] \in group}
            IN  group # {} =>
                  LET first == CHOOSE i \in group : \A k \in group : i <= k
                  IN  /\ Cardinality(about) = Cardinality(group) - 1
                      /\ \A j \in about :
                            /\ duplicates[j][2] = first
                            /\ duplicates[j][1] \in group \ {first}
                      /\ \A i \in group \ {first} :
                            \E j \in about : duplicates[j][1] = i
                      /\ hashes[<<c>>] = first

\* three files of one content and one of another: two pairs, one original,
\* and the report holds them
C3_Witness ==
    /\ dpc = "done"
    /\ Len(directory.files) = 4
    /\ Cardinality(SameContent(1)) = 3
    /\ Cardinality(SameContent(2)) = 1
    /\ Len(duplicates) = 2
    /\ duplicates[1][2] = duplicates[2][2]
    /\ report = <<duplicates>>

(***************************************************************************)
(* get_channel_id_from_url and fetch_channel_videos.                       *)
(*                                                                         *)
(* The provider holds the uploads playlist as a sequence of pages.  A page *)
(* is its items, each <<id>> or None where the entry has no videoId, and   *)
(* its nextPageToken: None, or <<k>>, the cursor of page k.  The call says *)
(* what search().list finds for a handle, which channel identifiers        *)
(* channels().list knows, which page request raises (0: none) and whether  *)
(* the directory can be made and the table opened.                         *)
(***************************************************************************)
MsgNoChannelId == "Failed to retrieve channel ID."
MsgSkipping == "Skipping invalid item"
MsgFetched == "Fetched videos. Saved to file."

HandleMark == <<"/","@">>
ChannelMark == <<"c","h","a","n","n","e","l","/">>

\* sep in s
Contains(s, sep) ==
    \E i \in 1..(Len(s) - Len(sep) + 1) : SubSeq(s, i, i + Len(sep) - 1) = sep

\* s.split(sep)[-1] for a separator that is in s
AfterLastSep(s, sep) ==
    LET at == {i \in 1..(Len(s) - Len(sep) + 1) :
                  SubSeq(s, i, i + Len(sep) - 1) = sep}
        last == CHOOSE i \in at : \A j \in at : j <= i
    IN  Drop(s, last + Len(sep) - 1)

\* lines 222-245: the identifier returned, or None after the message of the
\* handler
get_channel_id_from_url(url, search) ==
    IF Contains(url, HandleMark)
    THEN IF search # None
         THEN [id |-> <<search[1]>>, printed |-> <<>>]
         ELSE [id |-> None, printed |-> <<MsgError>>]
    ELSE IF Contains(url, ChannelMark)
    THEN [id |-> <<AfterLastSep(url, ChannelMark)>>, printed |-> <<>>]
    ELSE [id |-> None, printed |-> <<MsgError>>]

\* "if not channel_id": None, or the empty text
NoChannelId(id) == id = None \/ id[1] = <<>>

\* a request that always asks for the first page
PageRequest_first_page(token) == [pageToken |-> None]

\* lines 286-295: the request carries the token in hand
PageRequest(token) == [pageToken |-> token]

\* the provider's answer to playlistItems().list
PlaylistItemsList(provider_pages, request) ==
    IF request.pageToken = None THEN provider_pages[1]
    ELSE provider_pages[request.pageToken[1]]

\* the page the provider answered with, by position
PageAnswered(request) ==
    IF request.pageToken = None THEN 1 ELSE request.pageToken[1]

\* a collection that forgets the check and keeps every entry
CollectVideoIds_keep_all(items) ==
    [k \in DOMAIN items |-> IF items[k] = None THEN "" ELSE items[k][1]]

\* lines 297-305: entries without a videoId are skipped
CollectVideoIds(items) ==
    LET present == SelectSeq(items, LAMBDA item : item # None)
    IN  [k \in DOMAIN present |-> present[k][1]]

\* line 305: one message per entry skipped
SkippedMessages(items) ==
    LET invalid == SelectSeq(items, LAMBDA item : item = None)
    IN  [k \in DOMAIN invalid |-> MsgSkipping]

\* the provider's answer to videos().list: the items of the requested
\* identifiers it can return, in request order
VideosList(video_ids, can_return) ==
    SelectSeq(video_ids, LAMBDA v : v \in can_return)

\* lines 318-334: one row per item of the metadata answer (the other
\* columns are copied from the item)
RowsOf(items) == [k \in DOMAIN items |-> [video_id |-> items[k]]]

\* lines 308-334
PageRows(video_ids, can_return) ==
    IF video_ids # <<>> THEN RowsOf(VideosList(video_ids, can_return))
    ELSE <<>>

\* lines 336-338
LoopEnds(token) == token = None

CsvExportHeader ==
    <<"Video ID", "Title", "Tags", "Channel Title", "Publish Date", "Duration">>

(***************************************************************************)
(* Specification SpecChan: one fetch_channel_videos call over every shape  *)
(* of URL, every answer about the channel, every short page sequence,      *)
(* every set of videos the metadata call leaves out, a request that raises *)
(* and a disk that refuses the table.                                      *)
(***************************************************************************)
KnownChannel == <<"U","C","a","b","c">>

ChannelUrls ==
    LET host == <<"h","t","t","p","s",":","/","/","w","w","w",".","y","o","u","t","u","b","e",".","c","o","m","/">>
    IN  {host \o <<"@","h","a","n","d","l","e">>,
         host \o ChannelMark \o KnownChannel,
         host \o ChannelMark \o <<"U","C","x","y","z">>,
         host \o ChannelMark,
         <<"h","t","t","p","s",":","/","/","e","x","a","m","p","l","e",".","c","o","m","/","n","o","t","-","a","-","c","h","a","n","n","e","l">>,
         <<>>}

PageItemLists ==
    {<<None>>,
     <<<<"v1">>, None, <<"v2">>>>,
     <<<<"v2">>, <<"v3">>>>}

\* page k of n: the last page has no token, an earlier one may have none
ProviderPages ==
    UNION {
        {p \in [1..n -> [items : PageItemLists, nextPageToken : {None} \cup {<<k>> : k \in 2..n}]] :
            /\ p[n].nextPageToken = None
            /\ \A k \in 1..(n - 1) : p[k].nextPageToken \in {None, <<k + 1>>}}
        : n \in 1..MaxPages}

\* the sets of videos the metadata call returns an item for
AvailableSets == {{"v1", "v2", "v3"}, {"v1", "v3"}, {}}

\* the position of the first page of p without a continuation token
FirstTokenlessOf(p) ==
    CHOOSE n \in DOMAIN p :
        /\ p[n].nextPageToken = None
        /\ \A k \in 1..(n - 1) : p[k].nextPageToken # None

\* the calls: the URL entered and what the provider answers about the channel
ChannelCalls ==
    {c \in [url : ChannelUrls, search : {None, <<KnownChannel>>}, known : SUBSET {KnownChannel}] :
        ~Contains(c.url, HandleMark) => c.search = None}

\* the call gets as far as the playlist
ReachesPlaylist(c) ==
    LET found == get_channel_id_from_url(c.url, c.search)
    IN  ~NoChannelId(found.id) /\ found.id[1] \in c.known

\* what goes wrong after that: nothing, the request of an iteration raises,
\* or the disk refuses the table
ChannelFailures ==
    {[fails_at |-> 0, fails_in |-> "nothing", disk |-> d] : d \in DiskAnswers}
    \cup [fails_at : 1..MaxPages, fails_in : {"playlist", "videos"}, disk : {"ok"}]

ChannelOf(c, f) ==
    [url |-> c.url, search |-> c.search, known |-> c.known,
     fails_at |-> f.fails_at, fails_in |-> f.fails_in, disk |-> f.disk]

\* the calls and the provider states they meet (a call that never asks for
\* the playlist is given once, with a playlist of one empty page; a call
\* that ends in the handler meets a provider that knows every video)
ChannelRuns ==
    {[channel |-> ChannelOf(c, [fails_at |-> 0, fails_in |-> "nothing", disk |-> "ok"]),
      pages |-> <<[items |-> <<None>>, nextPageToken |-> None]>>,
      available |-> {}] : c \in {x \in ChannelCalls : ~ReachesPlaylist(x)}}
    \cup
    {r \in {[channel |-> ChannelOf(c, f), pages |-> p, available |-> a] :
                c \in {x \in ChannelCalls : ReachesPlaylist(x)},
                f \in ChannelFailures, p \in ProviderPages, a \in AvailableSets} :
        /\ r.channel.fails_at <= FirstTokenlessOf(r.pages)
        /\ r.channel.fails_at # 0 \/ r.channel.disk # "ok" =>
              r.available = {"v1", "v2", "v3"}}

ChanInit ==
    /\ \E r \in ChannelRuns :
          /\ channel = r.channel
          /\ pages = r.pages
          /\ available = r.available
    /\ next_page_token = None
    /\ videos = <<>>
    /\ page_log = <<>>
    /\ chprinted = <<>>
    /\ chpc = "start"
    /\ SanIdle
    /\ FsvIdle
    /\ BatchIdle
    /\ DupIdle
    /\ records = NoRecords
    /\ report = None
    /\ export = None
    /\ FirstOperation

\* lines 258-282: the channel identifier, then the uploads playlist of the
\* channel; channels().list with no item raises at line 274 into the handler
\* of lines 361-363
ChanStart ==
    /\ chpc = "start"
    /\ LET found == get_channel_id_from_url(channel.url, channel.search)
       IN  IF NoChannelId(found.id)
           THEN /\ chprinted' = chprinted \o found.printed \o <<MsgNoChannelId>>
                /\ chpc' = "failed"
           ELSE IF found.id[1] \notin channel.known
           THEN /\ chprinted' = chprinted \o <<MsgError>>
                /\ chpc' = "failed"
           ELSE /\ chprinted' = chprinted
                /\ chpc' = "loop"
    /\ UNCHANGED <<channel, pages, available, next_page_token, videos, page_log, export>>
    /\ UNCHANGED notChan

\* the state after one iteration of the while loop, lines 285-336
FetchPage ==
    LET request == PageRequest(next_page_token)
        playlist_response == PlaylistItemsList(pages, request)
        video_ids == CollectVideoIds(playlist_response.items)
        rows == PageRows(video_ids, available)
    IN  /\ videos' = videos \o rows
        /\ next_page_token' = playlist_response.nextPageToken
        /\ page_log' = Append(page_log,
                [sent |-> request.pageToken,
                 page |-> PageAnswered(request),
                 returned |-> playlist_response.nextPageToken,
                 n_ids |-> Len(video_ids),
                 n_rows |-> Len(rows)])

\* the messages of that iteration
PageSkipped ==
    SkippedMessages(PlaylistItemsList(pages, PageRequest(next_page_token)).items)

\* the iteration to come raises: in playlistItems().list, or, when the page
\* has a video id, in videos().list
PageFails ==
    /\ channel.fails_at = Len(page_log) + 1
    /\ \/ channel.fails_in = "playlist"
       \/ CollectVideoIds(PlaylistItemsList(pages, PageRequest(next_page_token)).items) # <<>>

\* an iteration that raises: the handler of lines 361-363, no table
ChanPageFails ==
    /\ chpc = "loop"
    /\ PageFails
    /\ chprinted' = IF channel.fails_in = "playlist"
                    THEN Append(chprinted, MsgError)
                    ELSE chprinted \o PageSkipped \o <<MsgError>>
    /\ chpc' = "failed"
    /\ UNCHANGED <<channel, pages, available, next_page_token, videos, page_log, export>>
    /\ UNCHANGED notChan

\* an iteration whose page has a continuation token: the loop goes on
ChanNextPage ==
    /\ chpc = "loop"
    /\ ~PageFails
    /\ FetchPage
    /\ ~LoopEnds(next_page_token')
    /\ chprinted' = chprinted \o PageSkipped
    /\ UNCHANGED <<channel, pages, available, export, chpc>>
    /\ UNCHANGED notChan

\* the iteration whose page has none: break, then lines 340-359 write the
\* table, replacing any earlier file, unless the disk refuses
ChanLastPage ==
    /\ chpc = "loop"
    /\ ~PageFails
    /\ FetchPage
    /\ LoopEnds(next_page_token')
    /\ IF channel.disk = "ok"
       THEN /\ export' = <<<<CsvExportHeader>> \o videos'>>
            /\ chprinted' = chprinted \o PageSkipped \o <<MsgFetched>>
            /\ chpc' = "done"
       ELSE /\ export' = export
            /\ chprinted' = chprinted \o PageSkipped \o <<MsgError>>
            /\ chpc' = "failed"
    /\ UNCHANGED <<channel, pages, available>>
    /\ UNCHANGED notChan

ChanNext == ChanStart \/ ChanPageFails \/ ChanNextPage \/ ChanLastPage

SpecChan == ChanInit /\ [][ChanNext]_vars

\* the entries of page k that carry a videoId
ResolvableIds(k) ==
    {i \in DOMAIN pages[k].items : pages[k].items[i] # None}

\* those of them the metadata provider returns an item for
ReturnedIds(k) ==
    {i \in ResolvableIds(k) : pages[k].items[i][1] \in available}

RECURSIVE SumRows(_)
SumRows(log) ==
    IF log = <<>> THEN 0 ELSE Head(log).n_rows + SumRows(Tail(log))

\* C4 as stated: the rows of a fetched page are as many as the entries of
\* that page that carry a videoId; with a token-less first page the total is
\* that number for the single page.
C4_RowsEqualIdentifiers ==
    /\ \A i \in DOMAIN page_log :
          page_log[i].n_rows = Cardinality(ResolvableIds(page_log[i].page))
    /\ chpc = "done" /\ pages[1].nextPageToken = None =>
          Len(videos) = Cardinality(ResolvableIds(1))

\* C4 amended: the rows of a fetched page are as many as the items the
\* metadata provider returns for the page's identifiers (the entries that
\* carry a videoId), one row each: never more than the identifiers, and as
\* many when the provider returns an item for each; the rows in hand are
\* those of the pages fetched.
C4_RowsEqualReturnedItems ==
    /\ \A i \in DOMAIN page_log :
          LET k == page_log[i].page
          IN  /\ page_log[i].n_ids = Cardinality(ResolvableIds(k))
              /\ page_log[i].n_rows = Cardinality(ReturnedIds(k))
              /\ page_log[i].n_rows <= page_log[i].n_ids
              /\ ReturnedIds(k) = ResolvableIds(k) =>
                    page_log[i].n_rows = page_log[i].n_ids
    /\ Len(videos) = SumRows(page_log)
    /\ chpc = "done" /\ pages[1].nextPageToken = None =>
          Len(videos) = Cardinality(ReturnedIds(1))

\* a single token-less page with an entry lacking a videoId and one video
\* the metadata provider leaves out: one row for two identifiers
C4_Witness ==
    /\ chpc = "done"
    /\ Len(page_log) = 1
    /\ page_log[1].n_ids = 2
    /\ page_log[1].n_rows = 1
    /\ Len(pages[1].items) = 3
    /\ Len(videos) = 1

\* the position of the first page without a continuation token
FirstTokenless == FirstTokenlessOf(pages)

\* C5: pages are requested one at a time, the first without a token and each
\* later one with the token the previous page returned, so page k is the
\* k-th fetched; the loop goes on while the last page had a token and ends
\* at the first page that has none, with exactly that many pages fetched
\* (whenever the provider answers every request up to that page).
C5_PaginationFollowsToken ==
    /\ \A i \in DOMAIN page_log :
          /\ page_log[i].sent =
                (IF i = 1 THEN None ELSE page_log[i - 1].returned)
          /\ page_log[i].page = i
          /\ page_log[i].returned = pages[i].nextPageToken
    /\ Len(page_log) <= FirstTokenless
    /\ chpc = "loop" => Len(page_log) < FirstTokenless /\ ENABLED ChanNext
    /\ chpc = "done" =>
          /\ Len(page_log) = FirstTokenless
          /\ ~ENABLED ChanNext
    /\ chpc = "failed" /\ page_log # <<>> /\ channel.fails_at = 0 =>
          Len(page_log) = FirstTokenless

\* three pages of which the second has no token: two fetched, then the end
C5_Witness ==
    /\ chpc = "done"
    /\ Len(pages) = 3
    /\ FirstTokenless = 2
    /\ Len(page_log) = 2
    /\ page_log[2].sent = <<2>>
    /\ export # None

(***************************************************************************)
(* Specification SpecSan: sanitize_filename applied to a name, then to     *)
(* its own result, with the configured maximum length.                     *)
(***************************************************************************)
SanAlphabet == {"a", " ", "!", "-", "é", "\f"}

RECURSIVE Pad(_)
Pad(n) == IF n = 0 THEN <<>> ELSE <<"a">> \o Pad(n - 1)

SanTails == UNION {[1..n -> SanAlphabet] : n \in 0..MaxTail}

\* names of every length around the cap, ending in any short mix of kept,
\* stripped and removed characters
SanNames ==
    {Pad(n) \o t : n \in 0..TRANSCRIPT_FILENAME_LENGTH, t \in SanTails}

SanInit ==
    /\ name \in SanNames
    /\ sanitized = <<>>
    /\ spc = "called"
    /\ FsvIdle
    /\ BatchIdle
    /\ DupIdle
    /\ ChanIdle
    /\ records = NoRecords
    /\ report = None
    /\ export = None
    /\ FirstOperation

Sanitize ==
    /\ spc = "called"
    /\ sanitized' = Append(sanitized,
            sanitize_filename(IF sanitized = <<>> THEN name
                              ELSE sanitized[Len(sanitized)],
                              TRANSCRIPT_FILENAME_LENGTH))
    /\ spc' = IF sanitized = <<>> THEN "called" ELSE "returned"
    /\ UNCHANGED <<name, notSan>>

SanNext == Sanitize

SpecSan == SanInit /\ [][SanNext]_vars

\* C6: sanitize_filename is idempotent: sanitizing an already sanitized name
\* gives the same name, also when the length cap cut it and when it fell
\* back to the placeholder.
C6_Idempotent ==
    Len(sanitized) = 2 => sanitized[2] = sanitized[1]

(***************************************************************************)
(* main_menu: the loop reads a choice, runs its operation to the end and   *)
(* reads the next choice; the files an operation wrote are there for the   *)
(* operations after it.  The session is followed for MaxChoices choices.   *)
(***************************************************************************)
\* choice 1: fetch_single_video() with no argument, so with no metadata
MenuFetch ==
    /\ mpc = "menu"
    /\ choices < MaxChoices
    /\ call' \in [video_url : FetchUrls, metadata : {EmptyDict}, env : Envs]
    /\ effects' = NoEffects
    /\ fpc' = "called"
    /\ mpc' = "operation"
    /\ choices' = choices + 1
    /\ UNCHANGED <<sanVars, batchVars, dupVars, chanVars, diskVars>>

\* choice 2
MenuBatch ==
    /\ mpc = "menu"
    /\ choices < MaxChoices
    /\ input' \in InputFiles
    /\ urls' = <<>>
    /\ bpos' = 0
    /\ results' = <<>>
    /\ bprinted' = <<>>
    /\ bpc' = "start"
    /\ mpc' = "operation"
    /\ choices' = choices + 1
    /\ UNCHANGED <<sanVars, fsvVars, dupVars, chanVars, diskVars>>

\* choice 3
MenuChannel ==
    /\ mpc = "menu"
    /\ choices < MaxChoices
    /\ \E r \in ChannelRuns :
          /\ channel' = r.channel
          /\ pages' = r.pages
          /\ available' = r.available
    /\ next_page_token' = None
    /\ videos' = <<>>
    /\ page_log' = <<>>
    /\ chprinted' = <<>>
    /\ chpc' = "start"
    /\ mpc' = "operation"
    /\ choices' = choices + 1
    /\ UNCHANGED <<sanVars, fsvVars, batchVars, dupVars, diskVars>>

\* choice 4
MenuDuplicates ==
    /\ mpc = "menu"
    /\ choices < MaxChoices
    /\ directory' \in Directories
    /\ dpos' = 1
    /\ hashes' = EmptyDict
    /\ duplicates' = <<>>
    /\ dprinted' = <<>>
    /\ dpc' = "start"
    /\ mpc' = "operation"
    /\ choices' = choices + 1
    /\ UNCHANGED <<sanVars, fsvVars, batchVars, chanVars, diskVars>>

\* choice 5
MenuQuit ==
    /\ mpc = "menu"
    /\ mpc' = "quit"
    /\ UNCHANGED <<sanVars, fsvVars, batchVars, dupVars, chanVars, diskVars, choices>>

\* any other choice: a message, and the menu again
MenuInvalid ==
    /\ mpc = "menu"
    /\ choices < MaxChoices
    /\ choices' = choices + 1
    /\ UNCHANGED <<sanVars, fsvVars, batchVars, dupVars, chanVars, diskVars, mpc>>

\* the operation returned: its locals are gone, its files stay
MenuReturn ==
    /\ mpc = "operation"
    /\ fpc = "returned" \/ bpc = "done" \/ dpc = "done" \/ chpc \in {"done", "failed"}
    /\ call' = IdleCall
    /\ effects' = NoEffects
    /\ fpc' = "idle"
    /\ input' = IdleInput
    /\ urls' = <<>>
    /\ bpos' = 0
    /\ results' = <<>>
    /\ bprinted' = <<>>
    /\ bpc' = "idle"
    /\ directory' = IdleDirectory
    /\ dpos' = 0
    /\ hashes' = EmptyDict
    /\ duplicates' = <<>>
    /\ dprinted' = <<>>
    /\ dpc' = "idle"
    /\ channel' = IdleChannel
    /\ pages' = <<>>
    /\ available' = {}
    /\ next_page_token' = None
    /\ videos' = <<>>
    /\ page_log' = <<>>
    /\ chprinted' = <<>>
    /\ chpc' = "idle"
    /\ mpc' = "menu"
    /\ UNCHANGED <<sanVars, diskVars, choices>>

MenuNext ==
    \/ MenuFetch
    \/ MenuBatch
    \/ MenuChannel
    \/ MenuDuplicates
    \/ MenuQuit
    \/ MenuInvalid
    \/ MenuReturn

(***************************************************************************)
(* Specification Spec: the program as main_menu runs it, from the menu of  *)
(* a fresh process on a disk that may hold the report of an earlier one.   *)
(***************************************************************************)
Init ==
    /\ SanIdle
    /\ FsvIdle
    /\ BatchIdle
    /\ DupIdle
    /\ ChanIdle
    /\ records = NoRecords
    /\ report \in EarlierReports
    /\ export = None
    /\ mpc = "menu"
    /\ choices = 0

Next == MenuNext \/ FsvNext \/ BatchNext \/ DupNext \/ ChanNext

Spec == Init /\ [][Next]_vars

====
